---------------------------- MODULE Spec2Model ----------------------------
(***************************************************************************)
(* Model of src/app1.py: the product-image matcher.                        *)
(*                                                                         *)
(*   process_inventory / create_search_terms   the inventory index         *)
(*   process_images_parallel / process_image_batch / detect_labels_for_image*)
(*                                              the batch dispatcher        *)
(*   calculate_match_score                      the scoring engine          *)
(*   match_images_to_products                   the matcher                 *)
(*   save_matches / save_results_excel / main   the recorder and the run    *)
(*                                                                         *)
(* Python strings are sequences of one-character strings, so that lower(),  *)
(* split(), join() and the substring test `in` are computed, not assumed.   *)
(* A score is an integer number of 1/200ths: confidence/100.0 * 1.5 is      *)
(* 3 * confidence units and confidence/100.0 * 0.5 is confidence units;     *)
(* confidences are whole percents, and floating-point rounding is not       *)
(* modelled.                                                                *)
(***************************************************************************)
EXTENDS Integers, Sequences, FiniteSets, TLC

VARIABLES
    \* ---- main(): position and the exception that ended the run, if any
    pc,                 \* "inventory","list","label","match","save","record","done","failed"; "score"; "split","split_done"
    raised,             \* "none" or the ValueError that main() let escape
    \* ---- inputs of the run
    inventory_file,     \* the Excel sheet: [columns, rows]
    listing,            \* os.listdir(image_folder)
    batch_size,
    max_workers,
    \* ---- process_inventory
    inventory_df,       \* rows with their search_terms
    \* ---- process_images_parallel
    image_paths,
    batches,
    task,               \* per batch: "queued", "running", "done"
    pos,                \* per batch: images of the batch already handled
    batch_results,      \* per batch: the worker's own dict
    merged,             \* batches the coordinating thread has merged
    results,            \* the dict the coordinating thread builds
    calls,              \* what each detect_labels_for_image call met so far
    \* ---- match_images_to_products
    midx,               \* items of image_labels already decided
    scored,             \* calls of calculate_match_score made so far
    scanning,           \* TRUE while the loop over the inventory rows runs
    ridx,               \* inventory rows the running scan has scored
    best_score,
    best_match,         \* <<>> for None, <<row>> for a row of the inventory
    best_matched_labels,
    matches,
    unmatched,
    \* ---- save_matches
    sidx,               \* matches already copied
    product_counts,
    saved,              \* files written to the output folder, in order
    \* ---- save_results_excel
    sheets,             \* the written workbook: <<>> until it is written
    \* ---- calculate_match_score called on its own
    sc_labels,
    sc_text,
    sc_out

runVars   == <<pc, raised>>
inputVars == <<inventory_file, listing, batch_size, max_workers>>
dispVars  == <<image_paths, batches, task, pos, batch_results, merged, results, calls>>
scanVars  == <<scanning, ridx, best_score, best_match, best_matched_labels>>
matchVars == <<midx, scored, matches, unmatched, scanVars>>
saveVars  == <<sidx, product_counts, saved, sheets>>
scoreVars == <<sc_labels, sc_text, sc_out>>
vars == <<runVars, inputVars, inventory_df, dispVars, matchVars, saveVars, scoreVars>>

-----------------------------------------------------------------------------
(* Bounds of the model *)
MaxLabels   == 2    \* labels in a list handed to calculate_match_score alone
MaxFiles    == 4    \* entries of the image folder
MaxProducts == 2    \* rows of the inventory sheet
MaxBatchSize == 2   \* batch_size
MaxWorkers  == 2    \* max_workers
MaxSplitImages == 45    \* images in a list split into batches on its own
MaxSplitSize   == 20    \* batch_size of such a split

-----------------------------------------------------------------------------
(* Strings *)

Upper  == <<"A","B","C","D","E","F","G","H","I","J","K","L","M",
            "N","O","P","Q","R","S","T","U","V","W","X","Y","Z">>
Lowers == <<"a","b","c","d","e","f","g","h","i","j","k","l","m",
            "n","o","p","q","r","s","t","u","v","w","x","y","z">>

LowerChar(c) ==
    IF \E i \in DOMAIN Upper : Upper[i] = c
    THEN Lowers[CHOOSE i \in DOMAIN Upper : Upper[i] = c]
    ELSE c

\* str.lower()
Lower(s) == [i \in 1..Len(s) |-> LowerChar(s[i])]

\* a in b, for strings
IsSubstring(a, b) ==
    \E i \in 0..(Len(b) - Len(a)) : SubSeq(b, i + 1, i + Len(a)) = a

\* s.endswith(suffix)
EndsWith(s, suffix) ==
    /\ Len(suffix) <= Len(s)
    /\ SubSeq(s, Len(s) - Len(suffix) + 1, Len(s)) = suffix

IsSpace(c) == c \in {" ", "\t", "\n"}

\* str.split(): the maximal runs of non-whitespace characters, in order
RECURSIVE SplitFrom(_, _, _)
SplitFrom(s, i, word) ==
    IF i > Len(s)
    THEN IF word = <<>> THEN <<>> ELSE <<word>>
    ELSE IF IsSpace(s[i])
         THEN IF word = <<>>
              THEN SplitFrom(s, i + 1, <<>>)
              ELSE <<word>> \o SplitFrom(s, i + 1, <<>>)
         ELSE SplitFrom(s, i + 1, Append(word, s[i]))

Split(s) == SplitFrom(s, 1, <<>>)

\* sep.join(parts)
RECURSIVE Join(_, _)
Join(sep, parts) ==
    IF parts = <<>> THEN <<>>
    ELSE IF Len(parts) = 1 THEN parts[1]
    ELSE parts[1] \o sep \o Join(sep, Tail(parts))

\* x in list
Contains(list, x) == \E i \in DOMAIN list : list[i] = x

-----------------------------------------------------------------------------
(* The strings of the model's inputs *)

s_cumin_seeds == <<"c","u","m","i","n"," ","s","e","e","d","s">>
s_Seed        == <<"S","e","e","d">>
s_box         == <<"b","o","x">>
s_Box         == <<"B","o","x">>
s_organic     == <<"o","r","g","a","n","i","c"," ","c","u","m","i","n"," ",
                   "s","e","e","d","s"," ","2","0","0","g"," ","p","o","u","c","h">>
s_seed_mix    == <<"S","e","e","d"," ","M","i","x">>
s_seed_box    == <<"s","e","e","d"," ","b","o","x">>
s_empty       == <<>>

Label(name, confidence) == [Name |-> name, Confidence |-> confidence]

-----------------------------------------------------------------------------
(* calculate_match_score *)

ScoreScale    == 200    \* score units per 1.0 (confidence / 100.0, weights in halves)
ExactWeight   == 3      \* * 1.5
PartialWeight == 1      \* * 0.5

\* (mutant) `if len(word) >= 3`: a three-letter word counts as a partial match
RECURSIVE ScoreWordsFromThree(_, _, _, _, _)
ScoreWordsFromThree(acc, words, label_name, confidence, search_terms_lower) ==
    IF words = <<>> THEN acc
    ELSE LET word == Head(words)
             hit  == Len(word) >= 3 /\ IsSubstring(word, search_terms_lower)
             next == IF hit
                     THEN [score |-> acc.score + confidence * PartialWeight,
                           matched_labels |->
                               IF Contains(acc.matched_labels, label_name)
                               THEN acc.matched_labels
                               ELSE Append(acc.matched_labels, label_name)]
                     ELSE acc
         IN  ScoreWordsFromThree(next, Tail(words), label_name, confidence,
                                 search_terms_lower)

\* one pass of `for word in label_name.split()`
RECURSIVE ScoreWords(_, _, _, _, _)
ScoreWords(acc, words, label_name, confidence, search_terms_lower) ==
    IF words = <<>> THEN acc
    ELSE LET word == Head(words)
             hit  == Len(word) > 3 /\ IsSubstring(word, search_terms_lower)
             next == IF hit
                     THEN [score |-> acc.score + confidence * PartialWeight,
                           matched_labels |->
                               IF Contains(acc.matched_labels, label_name)
                               THEN acc.matched_labels
                               ELSE Append(acc.matched_labels, label_name)]
                     ELSE acc
         IN  ScoreWords(next, Tail(words), label_name, confidence, search_terms_lower)

\* (mutant) `if label['Confidence'] < 50: continue`: a label counts from 50% on only
ScoreLabelFromFifty(acc, label, search_terms_lower) ==
    IF label.Confidence < 50 THEN acc
    ELSE LET label_name == Lower(label.Name)
             exact == IF IsSubstring(label_name, search_terms_lower)
                      THEN [score |-> acc.score + label.Confidence * ExactWeight,
                            matched_labels |-> Append(acc.matched_labels, label_name)]
                      ELSE acc
         IN  ScoreWords(exact, Split(label_name), label_name, label.Confidence,
                        search_terms_lower)

\* one pass of `for label in labels`
ScoreLabel(acc, label, search_terms_lower) ==
    LET label_name == Lower(label.Name)
        exact == IF IsSubstring(label_name, search_terms_lower)
                 THEN [score |-> acc.score + label.Confidence * ExactWeight,
                       matched_labels |-> Append(acc.matched_labels, label_name)]
                 ELSE acc
    IN  ScoreWords(exact, Split(label_name), label_name, label.Confidence,
                   search_terms_lower)

RECURSIVE ScoreLabels(_, _, _)
ScoreLabels(acc, labels, search_terms_lower) ==
    IF labels = <<>> THEN acc
    ELSE ScoreLabels(ScoreLabel(acc, Head(labels), search_terms_lower),
                     Tail(labels), search_terms_lower)

calculate_match_score(labels, search_terms) ==
    ScoreLabels([score |-> 0, matched_labels |-> <<>>], labels, Lower(search_terms))

-----------------------------------------------------------------------------
(* Python values that are not strings *)

None == <<"None">>      \* Python's None
NaN  == <<"NaN">>       \* an empty spreadsheet cell

\* isinstance(x, str)
IsStr(x) == x \notin {None, NaN}

\* pd.isna(x)
IsNa(x) == x \in {None, NaN}

(* dict, as the sequence of its items in insertion order *)
DictKeys(d) == [i \in DOMAIN d |-> d[i][1]]
HasKey(d, k) == \E i \in DOMAIN d : d[i][1] = k
DictGet(d, k) == d[CHOOSE i \in DOMAIN d : d[i][1] = k][2]

\* d[k] = v
DictSet(d, k, v) ==
    IF HasKey(d, k)
    THEN [i \in DOMAIN d |-> IF d[i][1] = k THEN <<k, v>> ELSE d[i]]
    ELSE Append(d, <<k, v>>)

\* d.update(other)
RECURSIVE DictUpdate(_, _)
DictUpdate(d, other) ==
    IF other = <<>> THEN d
    ELSE DictUpdate(DictSet(d, Head(other)[1], Head(other)[2]), Tail(other))

-----------------------------------------------------------------------------
(* process_inventory, create_search_terms *)

essential_columns == <<"product_id", "name">>
optional_fields   == <<"category", "description", "color", "material", "size">>

\* row.get(field)
RowGet(row, field) == IF field \in DOMAIN row THEN row[field] ELSE None

RECURSIVE OptionalTerms(_, _)
OptionalTerms(row, fields) ==
    IF fields = <<>> THEN <<>>
    ELSE LET field == Head(fields)
             term  == IF /\ field \in DOMAIN row
                         /\ IsStr(RowGet(row, field))
                         /\ ~IsNa(RowGet(row, field))
                      THEN <<row[field]>>
                      ELSE <<>>
         IN  term \o OptionalTerms(row, Tail(fields))

create_search_terms(row) ==
    LET name_terms == IF IsStr(RowGet(row, "name")) THEN <<row["name"]>> ELSE <<>>
    IN  Join(<<" ">>, name_terms \o OptionalTerms(row, optional_fields))

\* (mutant) essential_columns = ['product_id']: the name column is not asked for
MissingColumnIdOnly(df) ==
    IF "product_id" \notin df.columns THEN <<"product_id">> ELSE <<>>

\* the column check of process_inventory: <<the first missing column>>, or <<>>
MissingColumn(df) ==
    IF \E i \in DOMAIN essential_columns : essential_columns[i] \notin df.columns
    THEN <<essential_columns[
             CHOOSE i \in DOMAIN essential_columns :
                 /\ essential_columns[i] \notin df.columns
                 /\ \A j \in 1..(i - 1) : essential_columns[j] \in df.columns]>>
    ELSE <<>>

WithSearchTerms(row) ==
    [c \in DOMAIN row \cup {"search_terms"} |->
        IF c = "search_terms" THEN create_search_terms(row) ELSE row[c]]

\* df['search_terms'] = df.apply(create_search_terms, axis=1)
AddSearchTerms(df) == [i \in DOMAIN df.rows |-> WithSearchTerms(df.rows[i])]

(* Inventory sheets of the model *)
s_P1        == <<"P","1">>
s_P2        == <<"P","2">>
s_gift_box  == <<"G","i","f","t"," ","b","o","x">>

Row(product_id, name, category) ==
    [product_id |-> product_id, name |-> name, category |-> category]

row_seed_mix == Row(s_P1, s_seed_mix, NaN)
row_seed_box == Row(s_P2, s_seed_box, NaN)
row_dup_id   == Row(s_P1, s_gift_box, NaN)       \* shares its product_id with row_seed_mix
row_blank    == Row(NaN, NaN, s_Seed)            \* neither product_id nor name

SheetRows == {row_seed_mix, row_seed_box, row_dup_id, row_blank}

RECURSIVE SeqsUpTo(_, _)
SeqsUpTo(S, n) ==
    IF n = 0 THEN {<<>>}
    ELSE LET shorter == SeqsUpTo(S, n - 1)
         IN  shorter \cup {Append(q, x) : q \in {r \in shorter : Len(r) = n - 1}, x \in S}

Sheet(rows) == [columns |-> {"product_id", "name", "category"}, rows |-> rows]

\* every sheet of at most MaxProducts rows that has the three columns
GoodSheets == {Sheet(rows) : rows \in SeqsUpTo(SheetRows, MaxProducts)}

sheet_no_name == [columns |-> {"product_id", "category"},
                  rows |-> <<[product_id |-> s_P1, category |-> s_Seed]>>]
sheet_no_id   == [columns |-> {"name", "category"},
                  rows |-> <<[name |-> s_seed_mix, category |-> NaN]>>]

-----------------------------------------------------------------------------
(* The image folder *)

image_folder == <<"i","n">>

Digits == <<"1","2","3","4","5","6","7","8","9">>
FileExts == << <<".","t","x","t">>, <<".","j","p","g">>, <<".","j","p","g","s">>,
               <<".","P","N","G">>, <<".","J","p","e","g">>, <<".","w","e","b","p">> >>

\* the i-th entry of the folder: 1.txt, 2.jpg, 3.jpgs, 4.PNG, 5.Jpeg, 6.webp, 7.txt, ...
FileName(i) == <<Digits[i]>> \o FileExts[((i - 1) % Len(FileExts)) + 1]

\* the folders of the model: the first n entries, n = 0..MaxFiles
Listings == {[i \in 1..n |-> FileName(i)] : n \in 0..MaxFiles}

\* os.path.join(folder, filename)
PathJoin(folder, filename) == folder \o <<"/">> \o filename

\* os.path.basename(path)
extract_filename(path) ==
    LET slashes == {i \in DOMAIN path : path[i] = "/"}
        last    == IF slashes = {} THEN 0
                   ELSE CHOOSE i \in slashes : \A j \in slashes : j <= i
    IN  SubSeq(path, last + 1, Len(path))

image_suffixes == << <<".","p","n","g">>, <<".","j","p","g">>,
                     <<".","j","p","e","g">>, <<".","w","e","b","p">> >>

\* filename.lower().endswith(('.png', '.jpg', '.jpeg', '.webp'))
IsImageFile(filename) ==
    \E i \in DOMAIN image_suffixes : EndsWith(Lower(filename), image_suffixes[i])

\* the loop over os.listdir(image_folder)
RECURSIVE ListImagePaths(_)
ListImagePaths(names) ==
    IF names = <<>> THEN <<>>
    ELSE (IF IsImageFile(Head(names))
          THEN <<PathJoin(image_folder, Head(names))>>
          ELSE <<>>) \o ListImagePaths(Tail(names))

Min(a, b) == IF a <= b THEN a ELSE b

\* (mutant) `range(0, len(image_paths) - batch_size + 1, batch_size)`: a short last
\* batch is left out
SplitBatchesDropsShort(paths, size) ==
    [k \in 1..(Len(paths) \div size) |->
        SubSeq(paths, (k - 1) * size + 1, (k - 1) * size + size)]

\* for i in range(0, len(image_paths), batch_size): image_paths[i:min(i + batch_size, len)]
SplitBatches(paths, size) ==
    LET starts == {i \in 0..(Len(paths) - 1) : i % size = 0}
    IN  [k \in 1..Cardinality(starts) |->
            SubSeq(paths, (k - 1) * size + 1, Min((k - 1) * size + size, Len(paths)))]

-----------------------------------------------------------------------------
(* detect_labels_for_image: what one call can meet *)

labels_seed == <<Label(s_Seed, 50)>>
labels_box  == <<Label(s_box, 95)>>

\* open() fails, the service raises ClientError, or the service answers
LabelingOutcomes ==
    {[kind |-> "OSError"], [kind |-> "ClientError"]}
        \cup {[kind |-> "Labels", labels |-> l] : l \in {<<>>, labels_seed, labels_box}}

\* [labels: the value returned, printed: whether an error line was printed]
detect_labels_for_image(outcome) ==
    IF outcome.kind = "Labels"
    THEN [labels |-> outcome.labels, printed |-> FALSE]
    ELSE [labels |-> <<>>, printed |-> TRUE]

-----------------------------------------------------------------------------
(* match_images_to_products *)

Threshold == 200    \* best_score >= 1.0

\* (mutant) the scan starts below every score, so a product scoring 0 is a candidate
NoBestBelowZero == [best_score |-> -1, best_match |-> <<>>, best_matched_labels |-> <<>>]

\* best_match is <<>> for None and <<row>> for a row of the inventory
NoBest == [best_score |-> 0, best_match |-> <<>>, best_matched_labels |-> <<>>]

\* (mutant) `if score >= best_score`: the last of several maximal rows is kept
ScanRowKeepsLast(best, row, labels) ==
    LET r == calculate_match_score(labels, row["search_terms"])
    IN  IF r.score >= best.best_score
        THEN [best_score |-> r.score, best_match |-> <<row>>,
              best_matched_labels |-> r.matched_labels]
        ELSE best

\* (mutant) `best_matched_labels = matched_labels` outside the if: the labels of the
\* row scored last are kept
ScanRowLabelsOfLast(best, row, labels) ==
    LET r == calculate_match_score(labels, row["search_terms"])
    IN  IF r.score > best.best_score
        THEN [best_score |-> r.score, best_match |-> <<row>>,
              best_matched_labels |-> r.matched_labels]
        ELSE [best EXCEPT !.best_matched_labels = r.matched_labels]

\* the body of `for idx, row in inventory_df.iterrows()`
ScanRow(best, row, labels) ==
    LET r == calculate_match_score(labels, row["search_terms"])
    IN  IF r.score > best.best_score
        THEN [best_score |-> r.score, best_match |-> <<row>>,
              best_matched_labels |-> r.matched_labels]
        ELSE best

\* (mutant) `if best_score > 1.0`
AcceptedStrict(best) == best.best_score > Threshold /\ best.best_match # <<>>

\* if best_score >= 1.0 and best_match is not None
Accepted(best) == best.best_score >= Threshold /\ best.best_match # <<>>

\* (mutant) the record of an image without labels carries a score and a candidate
NoLabelsRecordWithScore(image_path) ==
    [image_path      |-> image_path,
     filename        |-> extract_filename(image_path),
     best_match_id   |-> None,
     best_match_name |-> None,
     confidence      |-> 0,
     reason          |-> "No labels detected"]

NoLabelsRecord(image_path) ==
    [image_path |-> image_path,
     filename   |-> extract_filename(image_path),
     reason     |-> "No labels detected"]

MatchRecord(image_path, best) ==
    [image_path     |-> image_path,
     filename       |-> extract_filename(image_path),
     product_id     |-> best.best_match[1]["product_id"],
     product_name   |-> best.best_match[1]["name"],
     confidence     |-> best.best_score,
     matched_labels |-> Join(<<",", " ">>, best.best_matched_labels)]

LowConfidenceRecord(image_path, best) ==
    [image_path      |-> image_path,
     filename        |-> extract_filename(image_path),
     best_match_id   |-> IF best.best_match # <<>>
                         THEN best.best_match[1]["product_id"] ELSE None,
     best_match_name |-> IF best.best_match # <<>>
                         THEN best.best_match[1]["name"] ELSE None,
     confidence      |-> best.best_score,
     matched_labels  |-> Join(<<",", " ">>, best.best_matched_labels),
     reason          |-> "Low confidence match"]

\* (mutant) the `if not labels` check is missing: an image without labels is scanned
NoLabelsNever(labels) == FALSE

\* if not labels
NoLabels(labels) == labels = <<>>

\* (mutant) the else branch is missing: a rejected image is appended to neither list
ListForNoElse(best) == IF Accepted(best) THEN "matches" ELSE "neither"

\* the list the if/else of lines 173-191 appends to
ListFor(best) == IF Accepted(best) THEN "matches" ELSE "unmatched"

-----------------------------------------------------------------------------
(* save_matches *)

output_folder == <<"o","u","t">>

DecimalDigits == <<"0","1","2","3","4","5","6","7","8","9">>

\* str(n) of a non-negative integer
RECURSIVE IntToStr(_)
IntToStr(n) ==
    IF n < 10 THEN <<DecimalDigits[n + 1]>>
    ELSE IntToStr(n \div 10) \o <<DecimalDigits[(n % 10) + 1]>>

\* str(x) of a cell
Str(x) ==
    IF x = NaN THEN <<"n","a","n">>
    ELSE IF x = None THEN <<"N","o","n","e">>
    ELSE x

\* os.path.splitext(filename)[1]
SplitExt(filename) ==
    LET dots == {i \in DOMAIN filename :
                    /\ filename[i] = "."
                    /\ \E j \in 1..(i - 1) : filename[j] # "."}
        last == IF dots = {} THEN 0
                ELSE CHOOSE i \in dots : \A j \in dots : j <= i
    IN  IF last = 0 THEN <<>> ELSE SubSeq(filename, last, Len(filename))

\* rename_pattern.format(...) for the pattern "{product_id}_{index}{ext}"
NewFilename(product_id, index, ext) ==
    product_id \o <<"_">> \o IntToStr(index) \o ext

\* (mutant) the count is incremented before the file name is made: indices from 1
SaveOneCountsFirst(counts, match) ==
    LET product_id == Str(match.product_id)
        started == IF HasKey(counts, product_id) THEN counts
                   ELSE DictSet(counts, product_id, 0)
        index == DictGet(started, product_id) + 1
        new_filename == NewFilename(product_id, index, SplitExt(match.filename))
    IN  [product_counts |-> DictSet(started, product_id, index),
         copy |-> [src |-> match.image_path,
                   dst |-> PathJoin(output_folder, new_filename)]]

\* one pass of `for match in matches`: [product_counts, copy]
SaveOne(counts, match) ==
    LET product_id == Str(match.product_id)
        started == IF HasKey(counts, product_id) THEN counts
                   ELSE DictSet(counts, product_id, 0)
        index == DictGet(started, product_id)
        new_filename == NewFilename(product_id, index, SplitExt(match.filename))
    IN  [product_counts |-> DictSet(started, product_id, index + 1),
         copy |-> [src |-> match.image_path,
                   dst |-> PathJoin(output_folder, new_filename)]]

-----------------------------------------------------------------------------
(* save_results_excel *)

match_columns == <<"image_path", "filename", "product_id", "product_name",
                   "confidence", "matched_labels">>
unmatched_columns == <<"image_path", "filename", "best_match_id", "best_match_name",
                       "confidence", "matched_labels", "reason">>
no_labels_columns == <<"image_path", "filename", "reason">>

\* the keys of one decision dict, in the order the dict literal gives them
KeysOf(record) ==
    IF "product_id" \in DOMAIN record THEN match_columns
    ELSE IF "best_match_id" \in DOMAIN record THEN unmatched_columns
    ELSE no_labels_columns

\* the columns of pd.DataFrame(records): every key, in order of first appearance
RECURSIVE FrameColumns(_, _)
FrameColumns(cols, records) ==
    IF records = <<>> THEN cols
    ELSE LET keys == KeysOf(Head(records))
             new  == SelectSeq(keys, LAMBDA k : ~Contains(cols, k))
         IN  FrameColumns(cols \o new, Tail(records))

Range(q) == {q[i] : i \in DOMAIN q}

\* pd.DataFrame(records): a cell with no key in its dict is NaN
DataFrame(records) ==
    LET cols == FrameColumns(<<>>, records)
    IN  [columns |-> cols,
         rows |-> [i \in DOMAIN records |->
                     [c \in Range(cols) |->
                         IF c \in DOMAIN records[i] THEN records[i][c] ELSE NaN]]]

\* pd.DataFrame(columns=[...])
EmptyFrame(cols) == [columns |-> cols, rows |-> <<>>]

\* the order of str: by code point, then by length
CodeOrder == <<" ", ".", "/", "0","1","2","3","4","5","6","7","8","9",
               "A","B","C","D","E","F","G","H","I","J","K","L","M",
               "N","O","P","Q","R","S","T","U","V","W","X","Y","Z", "_",
               "a","b","c","d","e","f","g","h","i","j","k","l","m",
               "n","o","p","q","r","s","t","u","v","w","x","y","z">>
Code(c) == CHOOSE i \in DOMAIN CodeOrder : CodeOrder[i] = c

StrLess(a, b) ==
    \/ /\ Len(a) < Len(b)
       /\ SubSeq(b, 1, Len(a)) = a
    \/ \E i \in 1..Min(Len(a), Len(b)) :
          /\ SubSeq(a, 1, i - 1) = SubSeq(b, 1, i - 1)
          /\ Code(a[i]) < Code(b[i])

RECURSIVE SortStrs(_)
SortStrs(S) ==
    IF S = {} THEN <<>>
    ELSE LET least == CHOOSE x \in S : \A y \in S \ {x} : StrLess(x, y)
         IN  <<least>> \o SortStrs(S \ {least})

\* matches_df.groupby('product_id').size().reset_index(name='image_count'):
\* one row per product_id that is not NaN, in sorted order
GroupSizes(frame) ==
    LET ids  == {frame.rows[i]["product_id"] : i \in DOMAIN frame.rows} \ {NaN, None}
        keys == SortStrs(ids)
    IN  [k \in DOMAIN keys |->
            [product_id  |-> keys[k],
             image_count |-> Cardinality({i \in DOMAIN frame.rows :
                                            frame.rows[i]["product_id"] = keys[k]})]]

\* the rows pd.merge(..., how='left') gives for one left row
MergeOne(left, right) ==
    LET hits == SelectSeq(right, LAMBDA r : r["product_id"] = left.product_id)
    IN  IF hits = <<>>
        THEN <<[product_id |-> left.product_id, image_count |-> left.image_count,
                name |-> NaN]>>
        ELSE [j \in DOMAIN hits |->
                [product_id |-> left.product_id, image_count |-> left.image_count,
                 name |-> hits[j]["name"]]]

RECURSIVE MergeLeft(_, _)
MergeLeft(left, right) ==
    IF left = <<>> THEN <<>>
    ELSE MergeOne(Head(left), right) \o MergeLeft(Tail(left), right)

\* lines 243-248: the images of each product, with the product's inventory rows
Summary(matches_df, df) ==
    [columns |-> <<"product_id", "image_count", "name">>,
     rows    |-> MergeLeft(GroupSizes(matches_df), df)]

-----------------------------------------------------------------------------
(* main(): process_inventory *)

ProcessInventory ==
    /\ pc = "inventory"
    /\ IF MissingColumn(inventory_file) # <<>>
       THEN /\ pc' = "failed"
            /\ raised' = "ValueError: required column not found"
            /\ UNCHANGED inventory_df
       ELSE /\ inventory_df' = AddSearchTerms(inventory_file)
            /\ pc' = "list"
            /\ UNCHANGED raised
    /\ UNCHANGED <<inputVars, dispVars, matchVars, saveVars, scoreVars>>

-----------------------------------------------------------------------------
(* process_images_parallel *)

\* lines 87-106: list the folder, split it into batches, submit them all
ListAndSplit ==
    /\ pc = "list"
    /\ LET paths == ListImagePaths(listing)
       IN  IF paths = <<>>
           THEN /\ pc' = "failed"
                /\ raised' = "ValueError: no images found"
                /\ UNCHANGED dispVars
           ELSE /\ image_paths' = paths
                /\ batches' = SplitBatches(paths, batch_size)
                /\ task' = [b \in DOMAIN batches' |-> "queued"]
                /\ pos' = [b \in DOMAIN batches' |-> 0]
                /\ batch_results' = [b \in DOMAIN batches' |-> <<>>]
                /\ merged' = 0
                /\ results' = <<>>
                /\ pc' = "label"
                /\ UNCHANGED <<raised, calls>>
    /\ UNCHANGED <<inputVars, inventory_df, matchVars, saveVars, scoreVars>>

Running == {b \in DOMAIN task : task[b] = "running"}

\* an idle thread of the pool takes the oldest queued batch
StartBatch(b) ==
    /\ pc = "label"
    /\ b \in DOMAIN task
    /\ task[b] = "queued"
    /\ \A a \in 1..(b - 1) : task[a] # "queued"
    /\ Cardinality(Running) < max_workers
    /\ task' = [task EXCEPT ![b] = "running"]
    /\ UNCHANGED <<runVars, inputVars, inventory_df, image_paths, batches, pos,
                   batch_results, merged, results, calls, matchVars, saveVars,
                   scoreVars>>

\* (mutant) an image whose labeling failed is left out of the batch's dict
StoreLabelsSkipsFailed(batch_result, image_path, outcome) ==
    IF outcome.kind = "Labels"
    THEN DictSet(batch_result, image_path, outcome.labels)
    ELSE batch_result

\* process_image_batch: results[image_path] = labels
StoreLabels(batch_result, image_path, outcome) ==
    DictSet(batch_result, image_path, detect_labels_for_image(outcome).labels)

\* process_image_batch: one pass of `for image_path in image_paths`
ProcessImage(b) ==
    /\ pc = "label"
    /\ b \in DOMAIN task
    /\ task[b] = "running"
    /\ pos[b] < Len(batches[b])
    /\ \E outcome \in LabelingOutcomes :
         LET image_path == batches[b][pos[b] + 1]
         IN  /\ batch_results' = [batch_results EXCEPT
                    ![b] = StoreLabels(batch_results[b], image_path, outcome)]
             /\ calls' = calls \cup {[image_path |-> image_path, outcome |-> outcome]}
    /\ pos' = [pos EXCEPT ![b] = pos[b] + 1]
    /\ UNCHANGED <<runVars, inputVars, inventory_df, image_paths, batches, task,
                   merged, results, matchVars, saveVars, scoreVars>>

\* process_image_batch: return results
FinishBatch(b) ==
    /\ pc = "label"
    /\ b \in DOMAIN task
    /\ task[b] = "running"
    /\ pos[b] = Len(batches[b])
    /\ task' = [task EXCEPT ![b] = "done"]
    /\ UNCHANGED <<runVars, inputVars, inventory_df, image_paths, batches, pos,
                   batch_results, merged, results, calls, matchVars, saveVars,
                   scoreVars>>

\* (mutant) results = batch_result: the batches merged before are lost
MergeResultOverwrites(merged_results, batch_result) == batch_result

\* results.update(batch_result)
MergeResult(merged_results, batch_result) == DictUpdate(merged_results, batch_result)

\* the coordinating thread: executor.map yields the batches in submission order
MergeBatch ==
    /\ pc = "label"
    /\ merged < Len(batches)
    /\ task[merged + 1] = "done"
    /\ results' = MergeResult(results, batch_results[merged + 1])
    /\ merged' = merged + 1
    /\ UNCHANGED <<runVars, inputVars, inventory_df, image_paths, batches, task, pos,
                   batch_results, calls, matchVars, saveVars, scoreVars>>

\* return results: the locals of process_images_parallel are gone
ReturnLabels ==
    /\ pc = "label"
    /\ merged = Len(batches)
    /\ pc' = "match"
    /\ image_paths' = <<>>
    /\ batches' = <<>>
    /\ task' = <<>>
    /\ pos' = <<>>
    /\ batch_results' = <<>>
    /\ merged' = 0
    /\ UNCHANGED <<raised, inputVars, inventory_df, results, calls, matchVars,
                   saveVars, scoreVars>>

-----------------------------------------------------------------------------
(* match_images_to_products, over image_labels = results *)

\* the item of image_labels the loop is at
image_path_at == results[midx + 1][1]
labels_at     == results[midx + 1][2]

\* the three locals of the scan
Best ==
    [best_score |-> best_score, best_match |-> best_match,
     best_matched_labels |-> best_matched_labels]

\* lines 150-156: no labels, the image is recorded and the loop continues
SkipUnlabelled ==
    /\ pc = "match"
    /\ midx < Len(results)
    /\ ~scanning
    /\ NoLabels(labels_at)
    /\ unmatched' = Append(unmatched, NoLabelsRecord(image_path_at))
    /\ midx' = midx + 1
    /\ UNCHANGED <<runVars, inputVars, inventory_df, dispVars, scored, matches,
                   scanVars, saveVars, scoreVars>>

\* lines 159-161
StartScan ==
    /\ pc = "match"
    /\ midx < Len(results)
    /\ ~scanning
    /\ ~NoLabels(labels_at)
    /\ scanning' = TRUE
    /\ ridx' = 0
    /\ best_score' = NoBest.best_score
    /\ best_match' = NoBest.best_match
    /\ best_matched_labels' = NoBest.best_matched_labels
    /\ UNCHANGED <<runVars, inputVars, inventory_df, dispVars, midx, scored, matches,
                   unmatched, saveVars, scoreVars>>

\* lines 163-170: one row of the inventory
ScanStep ==
    /\ pc = "match"
    /\ scanning
    /\ ridx < Len(inventory_df)
    /\ \E best \in {ScanRow(Best, inventory_df[ridx + 1], labels_at)} :
         /\ best_score' = best.best_score
         /\ best_match' = best.best_match
         /\ best_matched_labels' = best.best_matched_labels
    /\ ridx' = ridx + 1
    /\ scored' = scored + 1
    /\ UNCHANGED <<runVars, inputVars, inventory_df, dispVars, midx, matches,
                   unmatched, scanning, saveVars, scoreVars>>

\* lines 173-191: the scan is over, the image goes to one of the two lists
Classify ==
    /\ pc = "match"
    /\ scanning
    /\ ridx = Len(inventory_df)
    /\ \E list \in {ListFor(Best)} :
         /\ matches' = IF list = "matches"
                        THEN Append(matches, MatchRecord(image_path_at, Best))
                        ELSE matches
         /\ unmatched' = IF list = "unmatched"
                          THEN Append(unmatched, LowConfidenceRecord(image_path_at, Best))
                          ELSE unmatched
    /\ scanning' = FALSE
    /\ midx' = midx + 1
    /\ UNCHANGED <<runVars, inputVars, inventory_df, dispVars, scored, ridx,
                   best_score, best_match, best_matched_labels, saveVars, scoreVars>>

\* line 194
MatchReturn ==
    /\ pc = "match"
    /\ midx = Len(results)
    /\ ~scanning
    /\ pc' = "save"
    /\ UNCHANGED <<raised, inputVars, inventory_df, dispVars, matchVars, saveVars,
                   scoreVars>>

-----------------------------------------------------------------------------
(* save_matches, save_results_excel and the end of main() *)

SaveMatch ==
    /\ pc = "save"
    /\ sidx < Len(matches)
    /\ LET step == SaveOne(product_counts, matches[sidx + 1])
       IN  /\ product_counts' = step.product_counts
           /\ saved' = Append(saved, step.copy)
    /\ sidx' = sidx + 1
    /\ UNCHANGED <<runVars, inputVars, inventory_df, dispVars, matchVars, sheets,
                   scoreVars>>

SaveReturn ==
    /\ pc = "save"
    /\ sidx = Len(matches)
    /\ pc' = "record"
    /\ UNCHANGED <<raised, inputVars, inventory_df, dispVars, matchVars, saveVars,
                   scoreVars>>

SaveResults ==
    /\ pc = "record"
    /\ \E matches_df \in {IF matches # <<>> THEN DataFrame(matches)
                          ELSE EmptyFrame(match_columns)},
          unmatched_df \in {IF unmatched # <<>> THEN DataFrame(unmatched)
                            ELSE EmptyFrame(unmatched_columns)} :
         \E summary_df \in {IF matches # <<>> THEN Summary(matches_df, inventory_df)
                             ELSE EmptyFrame(<<"product_id", "name", "image_count">>)} :
            sheets' = << [Matched |-> matches_df, Unmatched |-> unmatched_df,
                          Summary |-> summary_df] >>
    /\ pc' = "done"
    /\ UNCHANGED <<raised, inputVars, inventory_df, dispVars, matchVars, sidx,
                   product_counts, saved, scoreVars>>

-----------------------------------------------------------------------------
(* calculate_match_score called on its own *)

ScoreCall ==
    /\ pc = "score"
    /\ sc_out = <<>>
    /\ sc_out' = <<calculate_match_score(sc_labels, sc_text)>>
    /\ UNCHANGED <<runVars, inputVars, inventory_df, dispVars, matchVars, saveVars,
                   sc_labels, sc_text>>

\* the confidences a label is given in a second call
ConfidenceLevels == {25, 30, 50, 90, 95, 100}

\* a second call of calculate_match_score, one label's confidence raised, every
\* other label and the search text as in the first call
ScoreRaised ==
    /\ pc = "score"
    /\ Len(sc_out) = 1
    /\ \E i \in DOMAIN sc_labels, c \in ConfidenceLevels :
          /\ c > sc_labels[i].Confidence
          /\ sc_labels' = [sc_labels EXCEPT ![i] = Label(sc_labels[i].Name, c)]
          /\ sc_out' = Append(sc_out, calculate_match_score(sc_labels', sc_text))
    /\ UNCHANGED <<runVars, inputVars, inventory_df, dispVars, matchVars, saveVars,
                   sc_text>>

-----------------------------------------------------------------------------
(* the batching of process_images_parallel on its own: lines 99-103 *)

SplitCall ==
    /\ pc = "split"
    /\ batches' = SplitBatches(image_paths, batch_size)
    /\ pc' = "split_done"
    /\ UNCHANGED <<raised, inputVars, inventory_df, image_paths, task, pos,
                   batch_results, merged, results, calls, matchVars, saveVars,
                   scoreVars>>

-----------------------------------------------------------------------------
(* Specifications *)

BatchSizes   == 1..MaxBatchSize
WorkerCounts == 1..MaxWorkers

\* the sheets a whole run is started on
MainSheets ==
    {sheet_no_name, sheet_no_id, Sheet(<<row_seed_mix, row_seed_box>>),
     Sheet(<<row_blank, row_seed_mix>>)}

NothingLabelled ==
    /\ image_paths = <<>>
    /\ batches = <<>>
    /\ task = <<>>
    /\ pos = <<>>
    /\ batch_results = <<>>
    /\ merged = 0
    /\ calls = {}

NothingMatched ==
    /\ midx = 0
    /\ scored = 0
    /\ scanning = FALSE
    /\ ridx = 0
    /\ best_score = 0
    /\ best_match = <<>>
    /\ best_matched_labels = <<>>
    /\ matches = <<>>
    /\ unmatched = <<>>
    /\ sidx = 0
    /\ product_counts = <<>>
    /\ saved = <<>>
    /\ sheets = <<>>

NoScoreCall ==
    /\ sc_labels = <<>>
    /\ sc_text = <<>>
    /\ sc_out = <<>>

\* main() from its first line
Init ==
    /\ pc = "inventory"
    /\ raised = "none"
    /\ inventory_file \in MainSheets
    /\ listing \in Listings
    /\ batch_size \in BatchSizes
    /\ max_workers \in WorkerCounts
    /\ inventory_df = <<>>
    /\ results = <<>>
    /\ NothingLabelled
    /\ NothingMatched
    /\ NoScoreCall

Next ==
    \/ ProcessInventory
    \/ ListAndSplit
    \/ \E b \in 1..MaxFiles : StartBatch(b)
    \/ \E b \in 1..MaxFiles : ProcessImage(b)
    \/ \E b \in 1..MaxFiles : FinishBatch(b)
    \/ MergeBatch
    \/ ReturnLabels
    \/ SkipUnlabelled
    \/ StartScan
    \/ ScanStep
    \/ Classify
    \/ MatchReturn
    \/ SaveMatch
    \/ SaveReturn
    \/ SaveResults

Spec == Init /\ [][Next]_vars

\* a run always goes on to its next step
FairSpec == Spec /\ WF_vars(Next)

-----------------------------------------------------------------------------
(* match_images_to_products and what follows it, from any image_labels *)

labels_weak == <<Label(s_Seed, 30), Label(s_box, 25)>>

MatchLabelLists == {<<>>, labels_seed, labels_box, labels_weak}

\* every dict that gives each path of `paths` one of the label lists
RECURSIVE LabelDicts(_)
LabelDicts(paths) ==
    IF paths = <<>> THEN {<<>>}
    ELSE {<< <<Head(paths), l>> >> \o d : l \in MatchLabelLists, d \in LabelDicts(Tail(paths))}

\* main() at the call of match_images_to_products, every label call having answered
InitMatch ==
    /\ pc = "match"
    /\ raised = "none"
    /\ inventory_file \in GoodSheets
    /\ inventory_df = AddSearchTerms(inventory_file)
    /\ listing \in Listings
    /\ ListImagePaths(listing) # <<>>
    /\ batch_size = MaxBatchSize
    /\ max_workers = MaxWorkers
    /\ results \in LabelDicts(ListImagePaths(listing))
    /\ NothingLabelled
    /\ NothingMatched
    /\ NoScoreCall

NextMatch ==
    \/ SkipUnlabelled
    \/ StartScan
    \/ ScanStep
    \/ Classify
    \/ MatchReturn
    \/ SaveMatch
    \/ SaveReturn
    \/ SaveResults

SpecMatch == InitMatch /\ [][NextMatch]_vars

-----------------------------------------------------------------------------
(* calculate_match_score from any label list and search text *)

s_seed_box_lc == <<"S","e","e","d"," ","B","o","x">>

ScoreLabelSet ==
    {Label(s_cumin_seeds, 90), Label(s_Seed, 50), Label(s_Seed, 30), Label(s_box, 95),
     Label(s_Box, 50), Label(s_seed_box_lc, 100)}

ScoreTexts == {s_organic, s_seed_mix, s_seed_box, s_empty}

InitScore ==
    /\ pc = "score"
    /\ raised = "none"
    /\ inventory_file = Sheet(<<>>)
    /\ inventory_df = <<>>
    /\ listing = <<>>
    /\ batch_size = 1
    /\ max_workers = 1
    /\ results = <<>>
    /\ NothingLabelled
    /\ NothingMatched
    /\ sc_labels \in SeqsUpTo(ScoreLabelSet, MaxLabels)
    /\ sc_text \in ScoreTexts
    /\ sc_out = <<>>

NextScore == ScoreCall

SpecScore == InitScore /\ [][NextScore]_vars

\* two calls of calculate_match_score, the second with one confidence raised
NextRaise == ScoreCall \/ ScoreRaised

SpecRaise == InitScore /\ [][NextRaise]_vars

-----------------------------------------------------------------------------
(* the batching from any non-empty image list and any batch_size *)

\* n image paths: in/1.jpg, in/2.jpg, ...
SplitPaths(n) == [i \in 1..n |-> PathJoin(image_folder, IntToStr(i) \o <<".","j","p","g">>)]

InitBatch ==
    /\ pc = "split"
    /\ raised = "none"
    /\ inventory_file = Sheet(<<>>)
    /\ inventory_df = <<>>
    /\ listing = <<>>
    /\ batch_size \in 1..MaxSplitSize
    /\ max_workers = 1
    /\ \E n \in 1..MaxSplitImages : image_paths = SplitPaths(n)
    /\ batches = <<>>
    /\ task = <<>>
    /\ pos = <<>>
    /\ batch_results = <<>>
    /\ merged = 0
    /\ results = <<>>
    /\ calls = {}
    /\ NothingMatched
    /\ NoScoreCall

NextBatch == SplitCall

SpecBatch == InitBatch /\ [][NextBatch]_vars

-----------------------------------------------------------------------------
(* Properties of match_images_to_products (SpecMatch) *)

\* the image_labels items the loop has been through
Decided == 1..midx

MatchesOf(image_path) == {j \in DOMAIN matches : matches[j].image_path = image_path}
UnmatchedOf(image_path) == {j \in DOMAIN unmatched : unmatched[j].image_path = image_path}

\* the scores of one label list against every row, as pairs <<row index, score>>
RowScore(labels, j) == calculate_match_score(labels, inventory_df[j]["search_terms"]).score
RowScores(labels) == {<<j, RowScore(labels, j)>> : j \in DOMAIN inventory_df}

\* the maximum of such scores (0 with no row), and the first row that reaches m
MaxOf(scores) == CHOOSE m \in {0} \cup {p[2] : p \in scores} : \A p \in scores : p[2] <= m
FirstAt(scores, m) ==
    CHOOSE j \in {p[1] : p \in scores} :
        /\ <<j, m>> \in scores
        /\ \A k \in 1..(j - 1) : <<k, m>> \notin scores

MaxScore(labels) == MaxOf(RowScores(labels))

\* C1: once match_images_to_products has gone through image_labels, every image of
\* the mapping has exactly one decision: one record in matches or in unmatched, never
\* in both, never twice, and no record is about anything else.
C1_OneDecisionPerImage ==
    pc \in {"save", "record", "done"} =>
        /\ \A i \in DOMAIN results :
              Cardinality(MatchesOf(results[i][1]))
                  + Cardinality(UnmatchedOf(results[i][1])) = 1
        /\ Len(matches) + Len(unmatched) = Len(results)

C1_Witness ==
    /\ pc = "done"
    /\ Len(results) >= 2
    /\ matches # <<>>
    /\ unmatched # <<>>

\* C2: an image with labels is in matches exactly when its best score over the
\* inventory is at least the threshold, and is otherwise in unmatched with reason
\* "Low confidence match"; a match carries a score >= 1.0 and a low-confidence
\* record a score < 1.0.
C2_MatchedIffThreshold ==
    /\ \A i \in Decided :
          results[i][2] # <<>> =>
              \A best \in {MaxScore(results[i][2])} :
                  LET path == results[i][1]
                  IN  IF best >= Threshold
                      THEN /\ Cardinality(MatchesOf(path)) = 1
                           /\ UnmatchedOf(path) = {}
                      ELSE /\ MatchesOf(path) = {}
                           /\ Cardinality(UnmatchedOf(path)) = 1
                           /\ \A j \in UnmatchedOf(path) :
                                 unmatched[j].reason = "Low confidence match"
    /\ \A j \in DOMAIN matches : matches[j].confidence >= Threshold
    /\ \A j \in DOMAIN unmatched :
          unmatched[j].reason = "Low confidence match" =>
              unmatched[j].confidence < Threshold

C2_Witness ==
    /\ pc = "done"
    /\ \E j \in DOMAIN matches : matches[j].confidence = Threshold
    /\ \E j \in DOMAIN unmatched :
          /\ unmatched[j].reason = "Low confidence match"
          /\ unmatched[j].confidence > 0

\* C3 as claimed: an image without labels gets an unmatched record with reason
\* "No labels detected", score 0 and no candidate product.
C3_NoLabelsScoreZero ==
    \A i \in Decided :
        results[i][2] = <<>> =>
            \E j \in UnmatchedOf(results[i][1]) :
                /\ unmatched[j].reason = "No labels detected"
                /\ "confidence" \in DOMAIN unmatched[j]
                /\ unmatched[j].confidence = 0
                /\ "best_match_id" \in DOMAIN unmatched[j] => unmatched[j].best_match_id = None

\* C3 as amended: an image without labels gets exactly one decision, an unmatched
\* record that holds the image path, the file name and the reason "No labels
\* detected" and nothing else (no score, no candidate product), whatever the
\* inventory holds; calculate_match_score is called for the images with labels only.
C3_NoLabelsRecord ==
    /\ \A i \in Decided :
          results[i][2] = <<>> =>
              /\ MatchesOf(results[i][1]) = {}
              /\ Cardinality(UnmatchedOf(results[i][1])) = 1
              /\ \A j \in UnmatchedOf(results[i][1]) :
                    /\ DOMAIN unmatched[j] = {"image_path", "filename", "reason"}
                    /\ unmatched[j].reason = "No labels detected"
                    /\ unmatched[j].filename = extract_filename(results[i][1])
    /\ scored = Len(inventory_df) * Cardinality({i \in Decided : results[i][2] # <<>>})
                   + (IF scanning THEN ridx ELSE 0)

C3_Witness ==
    /\ pc = "done"
    /\ Len(inventory_df) = MaxProducts
    /\ scored > 0
    /\ \E i \in DOMAIN results : results[i][2] = <<>>

\* the product a decision records: <<id, name>>
ProductOf(record) ==
    IF "product_id" \in DOMAIN record
    THEN <<record.product_id, record.product_name>>
    ELSE <<record.best_match_id, record.best_match_name>>

DecisionsOf(image_path) ==
    {matches[j] : j \in MatchesOf(image_path)}
        \cup {unmatched[j] : j \in UnmatchedOf(image_path)}

C5_ZeroScoreHasCandidate ==
    \A i \in Decided :
        (results[i][2] # <<>> /\ MaxScore(results[i][2]) = 0 /\ inventory_df # <<>>) =>
            \E j \in UnmatchedOf(results[i][1]) :
                /\ unmatched[j].reason = "Low confidence match"
                /\ unmatched[j].best_match_id # None
                /\ unmatched[j].best_match_name # None

\* C5 as amended: such an image is unmatched with reason "Low confidence match",
\* score 0 and null candidate fields; a low-confidence record has null candidate
\* fields exactly when no product scored above 0, an empty inventory included.
C5_ZeroScoreNoCandidate ==
    \A i \in Decided :
        results[i][2] # <<>> =>
            \A best \in {MaxScore(results[i][2])} :
                /\ best = 0 =>
                      /\ MatchesOf(results[i][1]) = {}
                      /\ Cardinality(UnmatchedOf(results[i][1])) = 1
                /\ \A j \in UnmatchedOf(results[i][1]) :
                      /\ unmatched[j].reason = "Low confidence match"
                      /\ (unmatched[j].best_match_id = None) <=> (best = 0)
                      /\ (unmatched[j].best_match_name = None) <=> (best = 0)
                      /\ best = 0 => unmatched[j].confidence = 0

C5_Witness ==
    /\ pc = "done"
    /\ inventory_df # <<>>
    /\ \E j \in DOMAIN unmatched :
          /\ unmatched[j].reason = "Low confidence match"
          /\ unmatched[j].confidence = 0
          /\ unmatched[j].best_match_id = None

-----------------------------------------------------------------------------
(* Properties of calculate_match_score (SpecScore) *)

\* the label name occurs in the search text, both lower-cased
ExactHit(label, text) == IsSubstring(Lower(label.Name), Lower(text))

\* the words of the label name, longer than 3 characters, that occur in the text
WordHits(label, text) ==
    LET words == Split(Lower(label.Name))
    IN  Cardinality({k \in DOMAIN words :
                        Len(words[k]) > 3 /\ IsSubstring(words[k], Lower(text))})

\* conf * 1.5 for the phrase and conf * 0.5 for each such word, in 1/200ths
LabelScore(label, text) ==
    (IF ExactHit(label, text) THEN label.Confidence * 3 ELSE 0)
        + label.Confidence * WordHits(label, text)

RECURSIVE SumOfLabelScores(_, _)
SumOfLabelScores(labels, text) ==
    IF labels = <<>> THEN 0
    ELSE LabelScore(Head(labels), text) + SumOfLabelScores(Tail(labels), text)

HitNames(labels, text) ==
    {Lower(labels[i].Name) : i \in {k \in DOMAIN labels :
                                      ExactHit(labels[k], text) \/ WordHits(labels[k], text) > 0}}

\* C6: calculate_match_score returns the sum over the labels of conf * 1.5 for a
\* label name found in the search text plus conf * 0.5 for each of its words longer
\* than 3 characters found there, and the names of exactly the labels that one of
\* the two rules accepted; ("cumin seeds", 90) against "organic cumin seeds 200g
\* pouch" scores 2.25, and no labels score 0 with no matched name.
C6_ScoreIsTheSum ==
    sc_out # <<>> =>
        /\ sc_out[1].score = SumOfLabelScores(sc_labels, sc_text)
        /\ Range(sc_out[1].matched_labels) = HitNames(sc_labels, sc_text)
        /\ (sc_labels = <<Label(s_cumin_seeds, 90)>> /\ sc_text = s_organic) =>
              sc_out[1].score * 100 = 225 * ScoreScale
        /\ sc_labels = <<>> =>
              (sc_out[1].score = 0 /\ sc_out[1].matched_labels = <<>>)

C6_Witness ==
    /\ sc_out # <<>>
    /\ sc_labels = <<Label(s_cumin_seeds, 90)>>
    /\ sc_text = s_organic
    /\ sc_out[1].score = 450
    /\ sc_out[1].matched_labels = <<s_cumin_seeds>>

-----------------------------------------------------------------------------
(* Properties of process_images_parallel and of the whole run (Spec, FairSpec) *)

Labelled == pc \in {"match", "save", "record", "done"}

\* the images of the folder: what the run was asked to label
Requested == ListImagePaths(listing)

RECURSIVE FirstBatches(_)
FirstBatches(n) == IF n = 0 THEN <<>> ELSE FirstBatches(n - 1) \o batches[n]

\* C7: whatever the interleaving of the workers, the mapping process_images_parallel
\* returns holds every requested image path exactly once; while the workers run,
\* each batch's own dict holds the images that batch has handled and nothing else,
\* and the shared mapping holds the batches the coordinating thread has merged.
C7_EveryImageOnce ==
    /\ pc = "label" =>
          /\ DictKeys(results) = FirstBatches(merged)
          /\ \A b \in DOMAIN batches :
                DictKeys(batch_results[b]) = SubSeq(batches[b], 1, pos[b])
    /\ Labelled =>
          LET requested == Requested
          IN  /\ Len(results) = Len(requested)
              /\ \A k \in DOMAIN requested :
                    Cardinality({i \in DOMAIN results : results[i][1] = requested[k]}) = 1

C7_Witness ==
    /\ pc = "match"
    /\ batch_size = 1
    /\ max_workers = 2
    /\ Len(results) = 2
    /\ \E c \in calls : c.outcome.kind # "Labels"

\* what a call of detect_labels_for_image hands back
Answer(c) == IF c.outcome.kind = "Labels" THEN c.outcome.labels ELSE <<>>

CallsFor(image_path) == {c \in calls : c.image_path = image_path}

\* C8: an image whose labeling failed is recorded with an empty label list, every
\* other image keeps the labels its own call returned, every image of a batch is
\* handled after a failure as before it, and a failed call ends neither the batch
\* nor the run.
C8_FailureIsAnEmptyList ==
    /\ pc = "label" =>
          \A b \in DOMAIN batches : \A k \in 1..pos[b] :
              /\ HasKey(batch_results[b], batches[b][k])
              /\ Cardinality(CallsFor(batches[b][k])) = 1
              /\ \A c \in CallsFor(batches[b][k]) :
                    DictGet(batch_results[b], batches[b][k]) = Answer(c)
    /\ Labelled =>
          LET requested == Requested
          IN  \A k \in DOMAIN requested :
                  /\ HasKey(results, requested[k])
                  /\ Cardinality(CallsFor(requested[k])) = 1
                  /\ \A c \in CallsFor(requested[k]) :
                        DictGet(results, requested[k]) = Answer(c)
    /\ calls # {} => (raised = "none" /\ pc # "failed")

C8_Witness ==
    /\ pc = "match"
    /\ batch_size >= 2
    /\ Len(results) >= 2
    /\ \E c \in CallsFor(results[1][1]) : c.outcome.kind # "Labels"
    /\ results[1][2] = <<>>
    /\ results[2][2] # <<>>

\* every image of the folder was asked for and every call failed
EveryCallFailed ==
    /\ results # <<>>
    /\ \A i \in DOMAIN results :
          \E c \in CallsFor(results[i][1]) : c.outcome.kind # "Labels"

AllUnmatchedWritten ==
    /\ pc = "done"
    /\ raised = "none"
    /\ matches = <<>>
    /\ Len(unmatched) = Len(results)
    /\ \A i \in DOMAIN results :
          \E j \in UnmatchedOf(results[i][1]) : unmatched[j].reason = "No labels detected"
    /\ sheets # <<>>
    /\ sheets[1].Matched.rows = <<>>
    /\ Len(sheets[1].Unmatched.rows) = Len(results)
    /\ sheets[1].Summary.rows = <<>>

\* C9: a run that found images goes on to its end, and a run in which every labeling
\* call failed ends with every image unmatched for "No labels detected", no match,
\* and the three sheets written, no exception raised.
C9_AllFailedRunCompletes ==
    /\ (pc = "label") ~> (pc = "done" /\ sheets # <<>>)
    /\ (pc = "match" /\ EveryCallFailed) ~> AllUnmatchedWritten

C9_Witness ==
    /\ AllUnmatchedWritten
    /\ EveryCallFailed
    /\ Len(results) >= 2

\* a row without a non-empty product_id or without a non-empty name
RowLacksIdOrName(row) ==
    \/ ~IsStr(RowGet(row, "product_id"))
    \/ RowGet(row, "product_id") = <<>>
    \/ ~IsStr(RowGet(row, "name"))
    \/ RowGet(row, "name") = <<>>

ColumnError == "ValueError: required column not found"

\* C10 as claimed: process_inventory fails when any row lacks a non-empty
\* product_id or name.
C10_BlankRowRejected ==
    (/\ pc # "inventory"
     /\ \E i \in DOMAIN inventory_file.rows : RowLacksIdOrName(inventory_file.rows[i]))
        => raised = ColumnError

\* C10 as amended: process_inventory fails, before any labeling or matching, exactly
\* when the product_id or the name column is missing altogether; a sheet that has
\* both columns is accepted with every row, blank cells or not, each row getting the
\* search terms its string cells give.
C10_ColumnsOnly ==
    pc # "inventory" =>
        /\ (raised = ColumnError) <=> ~({"product_id", "name"} \subseteq inventory_file.columns)
        /\ raised = ColumnError =>
              /\ pc = "failed"
              /\ inventory_df = <<>>
              /\ results = <<>>
              /\ calls = {}
              /\ midx = 0
              /\ matches = <<>>
              /\ unmatched = <<>>
        /\ raised # ColumnError =>
              /\ Len(inventory_df) = Len(inventory_file.rows)
              /\ \A i \in DOMAIN inventory_df :
                    /\ inventory_df[i]["product_id"] = inventory_file.rows[i]["product_id"]
                    /\ inventory_df[i]["name"] = inventory_file.rows[i]["name"]

C10_Witness ==
    /\ pc = "failed"
    /\ raised = ColumnError
    /\ "product_id" \in inventory_file.columns

-----------------------------------------------------------------------------
(* Properties of save_results_excel and save_matches (SpecMatch) *)

\* the products that received a match, as <<id, name>>
MatchedProducts == {ProductOf(matches[j]) : j \in DOMAIN matches}

MatchCount(product) == Cardinality({j \in DOMAIN matches : ProductOf(matches[j]) = product})

SummaryRowsOf(product) ==
    {k \in DOMAIN sheets[1].Summary.rows :
        /\ sheets[1].Summary.rows[k].product_id = product[1]
        /\ sheets[1].Summary.rows[k].name = product[2]}

\* C11: the written summary has exactly one row per product that received a match,
\* with image_count the number of matches of that product, and no row for a product
\* without a match; stated for the inventories whose rows all have an id and a name,
\* two rows sharing an id included.
C11_OneSummaryRowPerProduct ==
    (/\ sheets # <<>>
     /\ \A i \in DOMAIN inventory_df :
           IsStr(inventory_df[i]["product_id"]) /\ IsStr(inventory_df[i]["name"]))
        => /\ \A product \in MatchedProducts :
                 /\ Cardinality(SummaryRowsOf(product)) = 1
                 /\ \A k \in SummaryRowsOf(product) :
                       sheets[1].Summary.rows[k].image_count = MatchCount(product)
           /\ \A k \in DOMAIN sheets[1].Summary.rows :
                 <<sheets[1].Summary.rows[k].product_id, sheets[1].Summary.rows[k].name>>
                     \in MatchedProducts

\* C12: the batches are contiguous pieces of the image list whose concatenation, in
\* order, is the list: every batch but the last holds batch_size images, the last
\* between 1 and batch_size, there are ceil(n / batch_size) batches, and 45 images
\* with batch_size 20 give batches of 20, 20 and 5.
C12_ContiguousBatches ==
    pc = "split_done" =>
        /\ FirstBatches(Len(batches)) = image_paths
        /\ Len(batches) * batch_size >= Len(image_paths)
        /\ (Len(batches) - 1) * batch_size < Len(image_paths)
        /\ \A k \in 1..(Len(batches) - 1) : Len(batches[k]) = batch_size
        /\ Len(batches[Len(batches)]) \in 1..batch_size
        /\ (Len(image_paths) = 45 /\ batch_size = 20) =>
              [k \in DOMAIN batches |-> Len(batches[k])] = <<20, 20, 5>>

C12_Witness ==
    /\ pc = "split_done"
    /\ Len(image_paths) = 45
    /\ batch_size = 20
    /\ Len(batches) = 3
    /\ Len(batches[3]) = 5

\* C13: raising the confidence of one label, the other labels and the search text
\* unchanged, never lowers the score calculate_match_score returns and leaves the
\* set of matched label names as it was.
C13_MonotonicInConfidence ==
    Len(sc_out) = 2 =>
        /\ sc_out[2].score >= sc_out[1].score
        /\ Range(sc_out[2].matched_labels) = Range(sc_out[1].matched_labels)

C13_Witness ==
    /\ Len(sc_out) = 2
    /\ Len(sc_labels) = 2
    /\ sc_out[2].score > sc_out[1].score
    /\ sc_out[1].score > 0
    /\ Len(sc_out[1].matched_labels) = 1

\* the key save_matches counts a match under
KeyOf(match) == Str(match.product_id)

\* the matches before the j-th that are of the j-th match's product
EarlierOfProduct(j) == {i \in 1..(j - 1) : KeyOf(matches[i]) = KeyOf(matches[j])}

\* C14: save_matches gives each product, identified by its product id, a running
\* index from 0: the k-th match of a product (0-based, in the order of matches) is
\* copied to <product id>_<k><ext>, whatever the matches of other products, and the
\* count kept for a product is the number of its matches copied so far, so that the
\* returned counts are the numbers of matches of each product.
C14_RunningIndexPerProduct ==
    pc \in {"save", "record", "done"} =>
        /\ Len(saved) = sidx
        /\ \A j \in 1..sidx :
              /\ saved[j].src = matches[j].image_path
              /\ saved[j].dst =
                    output_folder \o <<"/">> \o KeyOf(matches[j]) \o <<"_">>
                        \o IntToStr(Cardinality(EarlierOfProduct(j)))
                        \o SplitExt(matches[j].filename)
        /\ Range(DictKeys(product_counts)) = {KeyOf(matches[j]) : j \in 1..sidx}
        /\ \A n \in DOMAIN product_counts :
              product_counts[n][2] =
                  Cardinality({j \in 1..sidx : KeyOf(matches[j]) = product_counts[n][1]})
        /\ pc \in {"record", "done"} => sidx = Len(matches)

C14_Witness ==
    /\ pc = "done"
    /\ Len(saved) = 2
    /\ KeyOf(matches[1]) = KeyOf(matches[2])
    /\ saved[1].dst # saved[2].dst
    /\ product_counts = << <<KeyOf(matches[1]), 2>> >>

\* C15: while and after the rows of the inventory are scanned for an image with
\* labels, the candidate is None exactly when the best score is 0, and the matched
\* labels are then empty; a best score above 0 and its matched labels are the ones
\* calculate_match_score gives for the candidate row, and the labels are not empty.
\* Hence every match has a product and at least one matched label.
C15_CandidateScoreLabelsAgree ==
    /\ scanning =>
          /\ (best_match = <<>>) <=> (best_score = 0)
          /\ best_score >= 0
          /\ best_score = 0 => best_matched_labels = <<>>
          /\ best_score > 0 =>
                \A r \in {calculate_match_score(labels_at, best_match[1]["search_terms"])} :
                    /\ best_score = r.score
                    /\ best_matched_labels = r.matched_labels
                    /\ best_matched_labels # <<>>
    /\ \A j \in DOMAIN matches :
          /\ matches[j].product_id # None
          /\ matches[j].product_name # None
          /\ matches[j].matched_labels # <<>>

C15_Witness ==
    /\ scanning
    /\ Len(inventory_df) >= 2
    /\ ridx = Len(inventory_df)
    /\ best_score > 0
    /\ best_match = <<inventory_df[1]>>
    /\ inventory_df[2] # inventory_df[1]
    /\ Len(best_matched_labels) = 2
    /\ matches # <<>>

=============================================================================
